---- MODULE Spec2Model ----
(***************************************************************************)
(* Model of the developer sandbox console (components/SandboxView): the    *)
(* in-memory store kept by SandboxProvider (environments, API keys,        *)
(* webhooks, log entries, selected-environment pointer) with the handlers  *)
(* that mutate it, and the request simulator of APIRequestTester.          *)
(*                                                                         *)
(* Identifiers are naturals.  The mock environments carry the ids 1..2;    *)
(* every identifier produced by generateUUID is the next value of the      *)
(* counter nextId, which starts above the mock ids.  Fields the handlers   *)
(* only copy (description, owner, region, config, key text, url, secret,   *)
(* creation dates, message text) are left out of the records; `name` stands *)
(* for the editable payload of an environment.                             *)
(***************************************************************************)
EXTENDS Naturals, Sequences, FiniteSets

\* ------------------------------------------------------------------ bounds

\* Largest identifier generateUUID hands out (caps the number of creations).
MaxUUID == 13
\* Number of entries a refresh asks generateMockLogs for (the code asks for
\* 5..20).
MaxBatch == 2
\* Largest number of operations in a run of the store specification.
MaxSteps == 3
\* Largest number of key edits made beside a request tester.
MaxKeyEdits == 1

\* --------------------------------------------------------------- domains

NULL == 0

EnvStatuses == {"Active", "Stopped", "Archived", "Provisioning"}
KeyStatuses == {"Active", "Revoked", "Expired"}
HookStatuses == {"Active", "Paused", "Failed"}
Permissions == {"read:data", "write:data", "manage:webhooks", "admin"}
Methods == {"GET", "POST", "PUT", "DELETE", "PATCH"}
Names == {"n0", "n1"}
\* Log timestamps: an older and a newer instant of the window the code draws
\* from (the last 31 days).
TimeStamps == {1, 2}

\* The permission sets MOCK_API_KEYS draws from.
MockPermissionSets ==
    { {"read:data"},
      {"read:data", "write:data"},
      {"read:data", "write:data", "manage:webhooks"},
      {"admin"} }

\* The first rows of MOCK_ENVIRONMENTS, with the key and webhook counts scaled
\* down (an Active environment with keys and webhooks, a Stopped one with a
\* key and no webhook).
MOCK_ENVIRONMENTS ==
    << [id |-> 1, name |-> "n0", status |-> "Active",
        apiKeyCount |-> 2, webhookCount |-> 1],
       [id |-> 2, name |-> "n0", status |-> "Stopped",
        apiKeyCount |-> 1, webhookCount |-> 0] >>

\* First identifier generateUUID produces: above the mock environment ids.
FirstUUID == Len(MOCK_ENVIRONMENTS) + 1

\* ------------------------------------------------------ sequence helpers

Range(s) == { s[i] : i \in DOMAIN s }

Ids(s) == { s[i].id : i \in DOMAIN s }

\* Array.prototype.filter
Filter(s, Test(_)) == SelectSeq(s, Test)

\* Array.prototype.map
Map(s, F(_)) == [i \in DOMAIN s |-> F(s[i])]

\* Array.prototype.find, by position: the index of the first element passing
\* the test, or 0 when find returns undefined.
FindIndex(s, Test(_)) ==
    LET hits == { i \in DOMAIN s : Test(s[i]) }
    IN  IF hits = {} THEN 0
        ELSE CHOOSE i \in hits : \A j \in hits : i <= j

\* Array.prototype.flatMap over a sequence of sequences.
RECURSIVE Flatten(_)
Flatten(ss) == IF ss = << >> THEN << >> ELSE Head(ss) \o Flatten(Tail(ss))

\* logs.sort((a, b) => time(b) - time(a)): a stable sort, newest first.
RECURSIVE InsertNewestFirst(_, _)
InsertNewestFirst(sorted, e) ==
    IF sorted = << >> THEN << e >>
    ELSE IF Head(sorted).timestamp >= e.timestamp
         THEN << Head(sorted) >> \o InsertNewestFirst(Tail(sorted), e)
         ELSE << e >> \o sorted

RECURSIVE SortNewestFirst(_)
SortNewestFirst(s) ==
    IF s = << >> THEN << >>
    ELSE InsertNewestFirst(SortNewestFirst(SubSeq(s, 1, Len(s) - 1)), s[Len(s)])

\* generateMockLogs(envId, count): the batches it can return when the
\* identifiers it draws are first, first + 1, ... and its timestamps come
\* from stamps: count entries of the environment, sorted newest first.
generateMockLogs(envId, count, first, stamps) ==
    { SortNewestFirst([i \in 1..count |->
          [id |-> first + i - 1, environmentId |-> envId, timestamp |-> ts[i]]])
      : ts \in [1..count -> stamps] }

\* ------------------------------------------------------ request simulator

\* MOCK_API_ENDPOINTS: id, method, path, isAuthenticated of each entry.
MOCK_API_ENDPOINTS ==
    << [id |-> "ep-1", method |-> "GET", path |-> "/users/{id}", isAuthenticated |-> TRUE],
       [id |-> "ep-2", method |-> "POST", path |-> "/users", isAuthenticated |-> TRUE],
       [id |-> "ep-3", method |-> "GET", path |-> "/products", isAuthenticated |-> FALSE],
       [id |-> "ep-4", method |-> "DELETE", path |-> "/products/{id}", isAuthenticated |-> TRUE],
       [id |-> "ep-5", method |-> "POST", path |-> "/orders", isAuthenticated |-> TRUE],
       [id |-> "ep-6", method |-> "GET", path |-> "/status", isAuthenticated |-> FALSE] >>

CatalogPaths == { MOCK_API_ENDPOINTS[i].path : i \in DOMAIN MOCK_API_ENDPOINTS }

\* A path string that is in no catalog entry.
UnknownPath == "/nonexistent"

\* The values the path state is given: the options of the path selector, and
\* a string outside the catalog, which setPath accepts like any other.
Paths == CatalogPaths \cup {UnknownPath}

\* getRandomInt(100, 1500): the two ends of the latency range.
Delays == {100, 1500}

\* method === 'POST' || method === 'PUT' || method === 'DELETE' || method === 'PATCH'
isWriteMethod(m) == m \in {"POST", "PUT", "DELETE", "PATCH"}

\* Mutant of insufficientPermissions: the GET disjunct is missing.
insufficientForWrite(m, permissions) ==
    /\ "admin" \notin permissions
    /\ isWriteMethod(m) /\ "write:data" \notin permissions

\* The condition of the 403 branch, parsed as JavaScript parses it
\* (&& binds tighter than ||):
\*   (!admin && (write method && !write:data)) || (GET && !read:data)
insufficientPermissions(m, permissions) ==
    \/ /\ "admin" \notin permissions
       /\ isWriteMethod(m) /\ "write:data" \notin permissions
    \/ /\ m = "GET" /\ "read:data" \notin permissions

\* Mutant of successStatus: mockStatusCode is left at its initial 200.
successStatusDefault(m) == 200

\* mockStatusCode of the success branch.
successStatus(m) ==
    IF m = "POST" THEN 201 ELSE IF m = "DELETE" THEN 204 ELSE 200

\* Mutant of findEndpoint: an unmatched path falls back to the first entry.
findEndpointOrFirst(p) ==
    LET e == FindIndex(MOCK_API_ENDPOINTS, LAMBDA ep : ep.path = p)
    IN  IF e = 0 THEN 1 ELSE e

\* MOCK_API_ENDPOINTS.find(ep => ep.path === path), by position (0: none).
findEndpoint(p) == FindIndex(MOCK_API_ENDPOINTS, LAMBDA ep : ep.path = p)

\* Mutant of methodNotAllowed: a write method is let through on an endpoint
\* declared with another write method.
methodNotAllowedAcrossKinds(m, mockEndpoint) ==
    m # mockEndpoint.method /\ ~(isWriteMethod(m) /\ isWriteMethod(mockEndpoint.method))

\* Mutant of methodNotAllowed: the method is not compared.
methodAlwaysAllowed(m, mockEndpoint) == FALSE

\* method !== mockEndpoint.method
methodNotAllowed(m, mockEndpoint) == m # mockEndpoint.method

\* Mutant of requiresKey: every endpoint asks for a key.
requiresKeyAlways(mockEndpoint) == TRUE

\* mockEndpoint.isAuthenticated, the guard of both key branches.
requiresKey(mockEndpoint) == mockEndpoint.isAuthenticated

\* Mutant of keyRejected: the key's status is not looked at.
keyRejectedIfMissing(keyId, keys) ==
    FindIndex(keys, LAMBDA key : key.id = keyId) = 0

\* usedKey = apiKeys.find(k => k.id === selectedAPIKeyId);
\* !usedKey || usedKey.status !== 'Active'
keyRejected(keyId, keys) ==
    LET k == FindIndex(keys, LAMBDA key : key.id = keyId)
    IN  k = 0 \/ keys[k].status # "Active"

\* The body of handleSendRequest after the delay, as the status code and the
\* error text it sets, from the values its closure holds.
simulate(m, p, keyId, keys) ==
    LET e == findEndpoint(p)
        mockEndpoint == MOCK_API_ENDPOINTS[e]
        usedKey == keys[FindIndex(keys, LAMBDA key : key.id = keyId)]
    IN  IF e = 0
        THEN [statusCode |-> 404, error |-> "Mock endpoint not found."]
        ELSE IF methodNotAllowed(m, mockEndpoint)
        THEN [statusCode |-> 405, error |-> "Method Not Allowed."]
        ELSE IF requiresKey(mockEndpoint) /\ keyId # NULL
        THEN IF keyRejected(keyId, keys)
             THEN [statusCode |-> 401, error |-> "Unauthorized: Invalid API Key."]
             ELSE IF insufficientPermissions(m, usedKey.permissions)
             THEN [statusCode |-> 403, error |-> "Forbidden: Insufficient permissions."]
             ELSE [statusCode |-> successStatus(m), error |-> ""]
        ELSE IF requiresKey(mockEndpoint) /\ keyId = NULL
        THEN [statusCode |-> 401, error |-> "Unauthorized: API Key required."]
        ELSE [statusCode |-> successStatus(m), error |-> ""]

\* ------------------------------------------------------------------ state

VARIABLES
    environments,           \* SandboxProvider: SandboxEnvironment[]
    apiKeys,                \* SandboxProvider: APIKey[]
    webhooks,               \* SandboxProvider: WebhookConfig[]
    logs,                   \* SandboxProvider: LogEntry[]
    selectedEnvironmentId,  \* SandboxProvider: id of the open environment or NULL
    nextId,                 \* the next identifier generateUUID returns
    method,                 \* APIRequestTester: request method
    path,                   \* APIRequestTester: request path
    selectedAPIKeyId,       \* APIRequestTester: chosen key id, NULL for ''
    requestBody,            \* APIRequestTester: text of the request body field
    headers,                \* APIRequestTester: text of the headers field
    isLoading,              \* APIRequestTester: a request is waiting on its delay
    statusCode,             \* APIRequestTester: status shown, NULL for null
    responseTime,           \* APIRequestTester: elapsed time shown, NULL for null
    error,                  \* APIRequestTester: error text shown, "" for null
    pending,                \* the closure of the handleSendRequest call in flight
    isDataGenOpen,          \* SandboxView: the AI generator modal is open
    prompt,                 \* AIDataGeneratorModal: prompt
    generatedData,          \* AIDataGeneratorModal: generatedData, "" when empty
    generatorIsLoading,     \* AIDataGeneratorModal: isLoading
    generatorError,         \* AIDataGeneratorModal: error, "" for null
    generatorPending,       \* the handleGenerate call in flight
    call,                   \* the last operation run, with the store it ran on
    steps                   \* the number of operations run so far

store == << environments, apiKeys, webhooks, logs, selectedEnvironmentId >>
tester == << method, path, selectedAPIKeyId, requestBody, headers, isLoading, statusCode,
             responseTime, error, pending >>
generator == << isDataGenOpen, prompt, generatedData, generatorIsLoading, generatorError,
                generatorPending >>
vars == << environments, apiKeys, webhooks, logs, selectedEnvironmentId, nextId,
           method, path, selectedAPIKeyId, requestBody, headers, isLoading,
           statusCode, responseTime, error, pending, isDataGenOpen, prompt, generatedData,
           generatorIsLoading, generatorError, generatorPending, call, steps >>

\* The store as a record, kept in `call` as the state an operation ran on.
Snapshot ==
    [environments |-> environments, apiKeys |-> apiKeys, webhooks |-> webhooks,
     logs |-> logs, selectedEnvironmentId |-> selectedEnvironmentId]

Recorded(op, arg) == call' = [op |-> op, arg |-> arg, pre |-> Snapshot]

\* A store operation: recorded, and counted against the length of the run.
Called(op, arg) ==
    /\ steps < MaxSteps
    /\ Recorded(op, arg)
    /\ steps' = steps + 1

\* ------------------------------------------------------- store operations

\* Mutant of appended: the new record takes the place of the last one.
appendedOverLast(prev, x) ==
    IF prev = << >> THEN << x >> ELSE [prev EXCEPT ![Len(prev)] = x]

\* prev => [...prev, x]  (addEnvironment, addApiKey, addWebhook)
appended(prev, x) == Append(prev, x)

\* Mutant of replacedById: the record is put in front of the stored ones.
replacedByIdPrepending(prev, x) == << x >> \o prev

\* Mutant of replacedById: the updated record is added and the old one kept.
replacedByIdKeepingOld(prev, x) == Append(prev, x)

\* Mutant of replacedById: a record whose id is not stored is added.
replacedByIdOrAdded(prev, x) ==
    IF x.id \in Ids(prev)
    THEN Map(prev, LAMBDA y : IF y.id = x.id THEN x ELSE y)
    ELSE Append(prev, x)

\* prev => prev.map(y => y.id === x.id ? x : y)
\* (updateEnvironment, updateApiKey, updateWebhook)
replacedById(prev, x) == Map(prev, LAMBDA y : IF y.id = x.id THEN x ELSE y)

\* prev => prev.filter(x => x.id !== id)
\* (deleteEnvironment's first line, deleteApiKey, deleteWebhook)
withoutId(prev, id) == Filter(prev, LAMBDA x : x.id # id)

\* Mutant of withoutEnvironment: the cascade compares the entity's own id.
withoutEnvironmentById(prev, id) == Filter(prev, LAMBDA x : x.id # id)

\* prev => prev.filter(x => x.environmentId !== id)
\* (deleteEnvironment's cascade over apiKeys, webhooks and logs)
withoutEnvironment(prev, id) == Filter(prev, LAMBDA x : x.environmentId # id)

\* Mutant of deselected: the pointer is cleared by every delete.
deselectedAlways(selected, id) == NULL

\* Mutant of deselected: the pointer is cleared when another environment than
\* the selected one is deleted.
deselectedOther(selected, id) == IF selected # id THEN NULL ELSE selected

\* Mutant of deselected: the pointer is never cleared.
deselectedNever(selected, id) == selected

\* if (selectedEnvironmentId === id) setSelectedEnvironmentId(null)
deselected(selected, id) == IF selected = id THEN NULL ELSE selected

\* Mutant of prepended: the entry is put at the end.
prependedAtEnd(prev, log) == Append(prev, log)

\* prev => [log, ...prev]  (addLog)
prepended(prev, log) == << log >> \o prev

\* Mutant of refreshedLogs: the batch is put in front of all stored entries.
refreshedLogsKeepingOld(prev, newLogs, envId) == newLogs \o prev

\* prev => [...newLogs, ...prev.filter(log => log.environmentId !== envId)]
refreshedLogs(prev, newLogs, envId) == newLogs \o withoutEnvironment(prev, envId)

\* ------------------------------------------------------- request tester

\* The useState initial values of requestBody and headers, and the texts the
\* two fields are given: a JSON object, or text that is no JSON.
DefaultBody == "{}"
DefaultHeaders == "{\"Content-Type\": \"application/json\"}"
RequestBodies == {DefaultBody, "{\"name\": \"x\"}", "{name"}
HeaderTexts == {DefaultHeaders, "Content-Type"}

\* Mutant of respond: a request body that is no JSON is thrown on and caught.
respondParsingBody(closure, delay) ==
    IF closure.requestBody = "{name"
    THEN [statusCode |-> 500, error |-> "Request failed"]
    ELSE simulate(closure.method, closure.path,
                  closure.selectedAPIKeyId, closure.apiKeys)

\* What the body of handleSendRequest makes of the values its closure holds
\* once the delay is over: it reads method, path, selectedAPIKeyId and apiKeys,
\* and neither requestBody, headers nor the delay.
respond(closure, delay) ==
    simulate(closure.method, closure.path, closure.selectedAPIKeyId, closure.apiKeys)

\* SandboxView renders EnvironmentDetail and APIRequestTester only while the
\* pointer names an environment of the store.
Mounted(envs, selected) == selected # NULL /\ selected \in Ids(envs)

\* apiKeys.filter(key => key.environmentId === selectedEnvironmentId &&
\*                       key.status === 'Active')
availableKeys(keys, selected) ==
    Filter(keys, LAMBDA key : key.environmentId = selected /\ key.status = "Active")

\* The effect on [availableKeys, selectedAPIKeyId]: the key id it leaves.
effectKeyId(keyId, available) ==
    IF Len(available) > 0 /\ keyId = NULL THEN available[1].id
    ELSE IF Len(available) = 0 THEN NULL
    ELSE keyId

\* The useState initial values of APIRequestTester, before its effect runs.
TesterInitial(keyId) ==
    /\ method' = "GET"
    /\ path' = "/users/{id}"
    /\ selectedAPIKeyId' = keyId
    /\ requestBody' = DefaultBody
    /\ headers' = DefaultHeaders
    /\ isLoading' = FALSE
    /\ statusCode' = NULL
    /\ responseTime' = NULL
    /\ error' = ""
    /\ pending' = << >>

\* What a change of the store does to the tester: it is unmounted (its state
\* is dropped, a request in flight can no longer write to it), mounted afresh,
\* or re-rendered, and its effect settles the selected key.
TesterFollows ==
    LET after == availableKeys(apiKeys', selectedEnvironmentId')
    IN  IF ~Mounted(environments', selectedEnvironmentId')
        THEN TesterInitial(NULL)
        ELSE IF ~Mounted(environments, selectedEnvironmentId)
        THEN TesterInitial(effectKeyId(NULL, after))
        ELSE /\ selectedAPIKeyId' = effectKeyId(selectedAPIKeyId, after)
             /\ UNCHANGED << method, path, requestBody, headers, isLoading,
                             statusCode, responseTime, error, pending >>

\* ---------------------------------------------------------- AI generator

\* What the text of a completion holds: a JSON value, a JSON value inside
\* other text, braces or brackets around text that is no JSON value, or no
\* braces or brackets at all.
ResponseBodies == {"json", "jsonInProse", "brokenInProse", "prose"}

\* How ai.models.generateContent ends: the promise rejects, or resolves with a
\* response whose text is undefined, or resolves with text, which may be
\* wrapped in a markdown code fence.
Responses ==
    { r \in [outcome : {"rejected", "noText", "text"}, fenced : BOOLEAN,
              body : ResponseBodies] :
        r.outcome # "text" => (~r.fenced /\ r.body = "prose") }

Prompts == {"", "a user with 5 recent transactions", "an order"}

\* response.text.replace(/```json\n?|```/g, '').trim()
cleanedResponse(r) == [r EXCEPT !.fenced = FALSE]

\* JSON.parse(text) returns a value (does not throw).
parses(text) == ~text.fenced /\ text.body = "json"

\* cleanedResponse.match(/(\{[\s\S]*\}|\[[\s\S]*\])/): the span from the first
\* opening to the last closing brace or bracket; NULL when there is none.
matchOf(text) ==
    CASE text.body = "json" -> [text EXCEPT !.body = "json"]
      [] text.body = "jsonInProse" -> [text EXCEPT !.body = "json"]
      [] text.body = "brokenInProse" -> [text EXCEPT !.body = "brokenInProse"]
      [] text.body = "prose" -> NULL

\* Mutant of parsed: the span found by the pattern is taken without parsing.
parsedOrMatched(r) ==
    LET text == cleanedResponse(r)
    IN  parses(text) \/ text.body # "prose"

\* The try block of handleGenerate yields a value: the call resolved with
\* text, and the cleaned text, or else the span found in it, parses.
parsed(r) ==
    /\ r.outcome = "text"
    /\ LET text == cleanedResponse(r)
       IN  \/ parses(text)
           \/ text.body # "prose" /\ parses(matchOf(text))

ErrorMessage == "Error: Could not generate valid JSON data."

\* The state of AIDataGeneratorModal when it mounts, and of a closed modal.
GeneratorInitial ==
    /\ prompt' = "a user with 5 recent transactions"
    /\ generatedData' = ""
    /\ generatorIsLoading' = FALSE
    /\ generatorError' = ""
    /\ generatorPending' = << >>

GeneratorClosed ==
    /\ isDataGenOpen = FALSE
    /\ prompt = "a user with 5 recent transactions"
    /\ generatedData = ""
    /\ generatorIsLoading = FALSE
    /\ generatorError = ""
    /\ generatorPending = << >>

\* ---------------------------------------------------------------- start-up

\* MOCK_ENVIRONMENTS.flatMap(env => Array.from({length: count(env)}) ...):
\* the owning environment of each generated entity, in order.
Owners(Count(_)) ==
    Flatten([i \in DOMAIN MOCK_ENVIRONMENTS |->
                [j \in 1..Count(MOCK_ENVIRONMENTS[i]) |-> MOCK_ENVIRONMENTS[i].id]])

\* MOCK_API_KEYS: one key per apiKeyCount of each mock environment, with a
\* random status and permission set.
MOCK_API_KEYS(first, statuses, permissionSets) ==
    LET owner == Owners(LAMBDA env : env.apiKeyCount)
    IN  { [j \in DOMAIN owner |->
              [id |-> first + j - 1, environmentId |-> owner[j],
               status |-> st[j], permissions |-> pm[j], lastUsed |-> "date"]]
          : st \in [DOMAIN owner -> statuses],
            pm \in [DOMAIN owner -> permissionSets] }

\* MOCK_WEBHOOKS: one webhook per webhookCount of each mock environment.
MOCK_WEBHOOKS(first, statuses) ==
    LET owner == Owners(LAMBDA env : env.webhookCount)
    IN  { [j \in DOMAIN owner |->
              [id |-> first + j - 1, environmentId |-> owner[j], status |-> st[j]]]
          : st \in [DOMAIN owner -> statuses] }

\* The useState initialiser of logs: a batch per mock environment, in order.
RECURSIVE InitialLogs(_, _, _, _)
InitialLogs(envs, first, counts, stamps) ==
    IF envs = << >> THEN { << >> }
    ELSE UNION { UNION { { batch \o rest :
                             rest \in InitialLogs(Tail(envs), first + n, counts, stamps) }
                         : batch \in generateMockLogs(Head(envs).id, n, first, stamps) }
                 : n \in counts }

\* The state after SandboxProvider is constructed and SandboxView rendered,
\* the random draws of the mock generators taken from the given sets.
StartUp(keyStatuses, permissionSets, hookStatuses, counts, stamps) ==
    /\ environments = MOCK_ENVIRONMENTS
    /\ apiKeys \in MOCK_API_KEYS(FirstUUID, keyStatuses, permissionSets)
    /\ webhooks \in MOCK_WEBHOOKS(FirstUUID + Len(apiKeys), hookStatuses)
    /\ logs \in InitialLogs(MOCK_ENVIRONMENTS,
                            FirstUUID + Len(apiKeys) + Len(webhooks), counts, stamps)
    /\ selectedEnvironmentId = NULL
    /\ nextId = FirstUUID + Len(apiKeys) + Len(webhooks) + Len(logs)
    /\ method = "GET"
    /\ path = "/users/{id}"
    /\ selectedAPIKeyId = NULL
    /\ requestBody = DefaultBody
    /\ headers = DefaultHeaders
    /\ isLoading = FALSE
    /\ statusCode = NULL
    /\ responseTime = NULL
    /\ error = ""
    /\ pending = << >>
    /\ GeneratorClosed
    /\ call = [op |-> "start", arg |-> NULL, pre |-> Snapshot]
    /\ steps = 0

\* The start-up states the store specification runs from: the mock keys and
\* webhooks drawn Active, one log entry per environment, every timestamp draw.
Init == StartUp({"Active"}, {{"read:data", "write:data"}}, {"Active"}, {1}, TimeStamps)

\* ------------------------------------------------- environment handlers

\* SandboxView.handleSelectEnvironment, from a row of EnvironmentsTable.
HandleSelectEnvironment(id) ==
    /\ ~Mounted(environments, selectedEnvironmentId)
    /\ id \in Ids(environments)
    /\ selectedEnvironmentId' = id
    /\ UNCHANGED << environments, apiKeys, webhooks, logs, nextId >>
    /\ Called("setSelectedEnvironmentId", id)
    /\ TesterFollows
    /\ UNCHANGED generator

\* SandboxView.handleBackToEnvironments.
HandleBackToEnvironments ==
    /\ Mounted(environments, selectedEnvironmentId)
    /\ selectedEnvironmentId' = NULL
    /\ UNCHANGED << environments, apiKeys, webhooks, logs, nextId >>
    /\ Called("setSelectedEnvironmentId", NULL)
    /\ TesterFollows
    /\ UNCHANGED generator

\* EnvironmentForm.handleSubmit, creating: the form's initial record with a
\* generated id, the name typed in.
EnvironmentFormCreate(name) ==
    /\ ~Mounted(environments, selectedEnvironmentId)
    /\ nextId <= MaxUUID
    /\ LET env == [id |-> nextId, name |-> name, status |-> "Active",
                    apiKeyCount |-> 0, webhookCount |-> 0]
       IN  /\ environments' = appended(environments, env)
           /\ Called("addEnvironment", env)
    /\ nextId' = nextId + 1
    /\ UNCHANGED << apiKeys, webhooks, logs, selectedEnvironmentId >>
    /\ TesterFollows
    /\ UNCHANGED generator

\* EnvironmentForm.handleSubmit, editing a row of EnvironmentsTable.
EnvironmentFormEdit(i, name) ==
    /\ ~Mounted(environments, selectedEnvironmentId)
    /\ i \in DOMAIN environments
    /\ LET env == [environments[i] EXCEPT !.name = name]
       IN  /\ environments' = replacedById(environments, env)
           /\ Called("updateEnvironment", env)
    /\ UNCHANGED << apiKeys, webhooks, logs, selectedEnvironmentId, nextId >>
    /\ TesterFollows
    /\ UNCHANGED generator

\* EnvironmentSettings.handleSubmit: the open environment with the description
\* and config of the settings tab, everything else as stored.
EnvironmentSettingsSubmit(name) ==
    /\ Mounted(environments, selectedEnvironmentId)
    /\ LET i == FindIndex(environments, LAMBDA e : e.id = selectedEnvironmentId)
           env == [environments[i] EXCEPT !.name = name]
       IN  /\ environments' = replacedById(environments, env)
           /\ Called("updateEnvironment", env)
    /\ UNCHANGED << apiKeys, webhooks, logs, selectedEnvironmentId, nextId >>
    /\ TesterFollows
    /\ UNCHANGED generator

\* Mutant of HandleUpdateStatus: a button is shown whatever the status.
HandleUpdateStatusAlways ==
    /\ Mounted(environments, selectedEnvironmentId)
    /\ LET i == FindIndex(environments, LAMBDA e : e.id = selectedEnvironmentId)
           environment == environments[i]
           env == [environment EXCEPT !.status =
                      IF @ = "Active" THEN "Stopped" ELSE "Active"]
       IN  /\ environments' = replacedById(environments, env)
           /\ Called("updateEnvironment", env)
    /\ UNCHANGED << apiKeys, webhooks, logs, selectedEnvironmentId, nextId >>
    /\ TesterFollows
    /\ UNCHANGED generator

\* EnvironmentDetail.handleUpdateStatus, from the Stop and Start buttons.
HandleUpdateStatus ==
    /\ Mounted(environments, selectedEnvironmentId)
    /\ LET i == FindIndex(environments, LAMBDA e : e.id = selectedEnvironmentId)
           environment == environments[i]
       IN  /\ environment.status \in {"Active", "Stopped"}
           /\ LET env == [environment EXCEPT !.status =
                             IF @ = "Active" THEN "Stopped" ELSE "Active"]
              IN  /\ environments' = replacedById(environments, env)
                  /\ Called("updateEnvironment", env)
    /\ UNCHANGED << apiKeys, webhooks, logs, selectedEnvironmentId, nextId >>
    /\ TesterFollows
    /\ UNCHANGED generator

\* Mutant of deleteEnvironment: the log filter is missing.
deleteEnvironmentKeepingLogs(id) ==
    /\ environments' = withoutId(environments, id)
    /\ apiKeys' = withoutEnvironment(apiKeys, id)
    /\ webhooks' = withoutEnvironment(webhooks, id)
    /\ logs' = logs

\* SandboxProvider.deleteEnvironment: the four filters.
deleteEnvironment(id) ==
    /\ environments' = withoutId(environments, id)
    /\ apiKeys' = withoutEnvironment(apiKeys, id)
    /\ webhooks' = withoutEnvironment(webhooks, id)
    /\ logs' = withoutEnvironment(logs, id)

\* EnvironmentDetail.handleDelete: deleteEnvironment(environment.id), then
\* onClose(), which is handleBackToEnvironments.
HandleDelete ==
    /\ Mounted(environments, selectedEnvironmentId)
    /\ deleteEnvironment(selectedEnvironmentId)
    /\ selectedEnvironmentId' = NULL
    /\ UNCHANGED nextId
    /\ Called("handleDelete", selectedEnvironmentId)
    /\ TesterFollows
    /\ UNCHANGED generator

\* SandboxProvider.deleteEnvironment called through the context with any id.
DeleteEnvironment(id) ==
    /\ deleteEnvironment(id)
    /\ selectedEnvironmentId' = deselected(selectedEnvironmentId, id)
    /\ UNCHANGED nextId
    /\ Called("deleteEnvironment", id)
    /\ TesterFollows
    /\ UNCHANGED generator

\* -------------------------------------------------------- API key handlers

\* EnvironmentAPIKeys.handleCreateKey: the form's record with the open
\* environment and a generated id.
HandleCreateKey(status, permissions) ==
    /\ Mounted(environments, selectedEnvironmentId)
    /\ nextId <= MaxUUID
    /\ LET key == [id |-> nextId, environmentId |-> selectedEnvironmentId,
                    status |-> status, permissions |-> permissions,
                    lastUsed |-> "Never"]
       IN  /\ apiKeys' = appended(apiKeys, key)
           /\ Called("addApiKey", key)
    /\ nextId' = nextId + 1
    /\ UNCHANGED << environments, webhooks, logs, selectedEnvironmentId >>
    /\ TesterFollows
    /\ UNCHANGED generator

\* EnvironmentAPIKeys.handleGenerateNewKey.
HandleGenerateNewKey ==
    /\ Mounted(environments, selectedEnvironmentId)
    /\ nextId <= MaxUUID
    /\ LET newKey == [id |-> nextId, environmentId |-> selectedEnvironmentId,
                       status |-> "Active", permissions |-> {"read:data"},
                       lastUsed |-> "Never"]
       IN  /\ apiKeys' = appended(apiKeys, newKey)
           /\ Called("addApiKey", newKey)
    /\ nextId' = nextId + 1
    /\ UNCHANGED << environments, webhooks, logs, selectedEnvironmentId >>
    /\ TesterFollows
    /\ UNCHANGED generator

\* EnvironmentAPIKeys.handleUpdateKey: a row of the open environment edited
\* in APIKeyForm (status select, permission check boxes).
HandleUpdateKey(i, status, permissions) ==
    /\ Mounted(environments, selectedEnvironmentId)
    /\ i \in DOMAIN apiKeys
    /\ apiKeys[i].environmentId = selectedEnvironmentId
    /\ LET updatedKey == [apiKeys[i] EXCEPT !.status = status,
                                            !.permissions = permissions]
       IN  /\ apiKeys' = replacedById(apiKeys, updatedKey)
           /\ Called("updateApiKey", updatedKey)
    /\ UNCHANGED << environments, webhooks, logs, selectedEnvironmentId, nextId >>
    /\ TesterFollows
    /\ UNCHANGED generator

\* EnvironmentAPIKeys.handleRevokeKey, confirmed; offered on Active keys.
HandleRevokeKey(i) ==
    /\ Mounted(environments, selectedEnvironmentId)
    /\ i \in DOMAIN apiKeys
    /\ apiKeys[i].environmentId = selectedEnvironmentId
    /\ apiKeys[i].status = "Active"
    /\ LET revoked == [apiKeys[i] EXCEPT !.status = "Revoked"]
       IN  /\ apiKeys' = replacedById(apiKeys, revoked)
           /\ Called("updateApiKey", revoked)
    /\ UNCHANGED << environments, webhooks, logs, selectedEnvironmentId, nextId >>
    /\ TesterFollows
    /\ UNCHANGED generator

\* deleteApiKey(key.id), from a row of the open environment.
DeleteApiKey(i) ==
    /\ Mounted(environments, selectedEnvironmentId)
    /\ i \in DOMAIN apiKeys
    /\ apiKeys[i].environmentId = selectedEnvironmentId
    /\ apiKeys' = withoutId(apiKeys, apiKeys[i].id)
    /\ Called("deleteApiKey", apiKeys[i].id)
    /\ UNCHANGED << environments, webhooks, logs, selectedEnvironmentId, nextId >>
    /\ TesterFollows
    /\ UNCHANGED generator

\* -------------------------------------------------------- webhook handlers

\* EnvironmentWebhooks.handleSaveWebhook, creating.
HandleSaveWebhookNew(status) ==
    /\ Mounted(environments, selectedEnvironmentId)
    /\ nextId <= MaxUUID
    /\ LET webhook == [id |-> nextId, environmentId |-> selectedEnvironmentId,
                        status |-> status]
       IN  /\ webhooks' = appended(webhooks, webhook)
           /\ Called("addWebhook", webhook)
    /\ nextId' = nextId + 1
    /\ UNCHANGED << environments, apiKeys, logs, selectedEnvironmentId >>
    /\ TesterFollows
    /\ UNCHANGED generator

\* EnvironmentWebhooks.handleSaveWebhook, editing a row.
HandleSaveWebhookEdit(i, status) ==
    /\ Mounted(environments, selectedEnvironmentId)
    /\ i \in DOMAIN webhooks
    /\ webhooks[i].environmentId = selectedEnvironmentId
    /\ LET webhook == [webhooks[i] EXCEPT !.status = status]
       IN  /\ webhooks' = replacedById(webhooks, webhook)
           /\ Called("updateWebhook", webhook)
    /\ UNCHANGED << environments, apiKeys, logs, selectedEnvironmentId, nextId >>
    /\ TesterFollows
    /\ UNCHANGED generator

\* deleteWebhook(webhook.id), from a row of the open environment.
DeleteWebhook(i) ==
    /\ Mounted(environments, selectedEnvironmentId)
    /\ i \in DOMAIN webhooks
    /\ webhooks[i].environmentId = selectedEnvironmentId
    /\ webhooks' = withoutId(webhooks, webhooks[i].id)
    /\ Called("deleteWebhook", webhooks[i].id)
    /\ UNCHANGED << environments, apiKeys, logs, selectedEnvironmentId, nextId >>
    /\ TesterFollows
    /\ UNCHANGED generator

\* ------------------------------------------------------------ log handlers

\* SandboxProvider.refreshLogs(envId): a batch of count generated entries
\* replaces the environment's entries.  EnvironmentLogs calls it for the open
\* environment; the context offers it for any id.
RefreshLogs(envId, count) ==
    /\ nextId + count - 1 <= MaxUUID
    /\ \E newLogs \in generateMockLogs(envId, count, nextId, TimeStamps) :
          logs' = refreshedLogs(logs, newLogs, envId)
    /\ nextId' = nextId + count
    /\ Called("refreshLogs", envId)
    /\ UNCHANGED << environments, apiKeys, webhooks, selectedEnvironmentId >>
    /\ TesterFollows
    /\ UNCHANGED generator

\* SandboxProvider.addLog(log), offered by the context.
AddLog(envId, timestamp) ==
    /\ nextId <= MaxUUID
    /\ LET log == [id |-> nextId, environmentId |-> envId, timestamp |-> timestamp]
       IN  /\ logs' = prepended(logs, log)
           /\ Called("addLog", log)
    /\ nextId' = nextId + 1
    /\ UNCHANGED << environments, apiKeys, webhooks, selectedEnvironmentId >>
    /\ TesterFollows
    /\ UNCHANGED generator

\* ---------------------------------------------------- simulated requests

\* Mutant of HandleSendRequest: the Send button stays enabled while a request
\* is waiting, and a second call is started beside the first.
HandleSendRequestWhileLoading ==
    /\ Mounted(environments, selectedEnvironmentId)
    /\ Len(pending) < 2
    /\ isLoading' = TRUE
    /\ statusCode' = NULL
    /\ responseTime' = NULL
    /\ error' = ""
    /\ LET closure == [method |-> method, path |-> path,
                        selectedAPIKeyId |-> selectedAPIKeyId, apiKeys |-> apiKeys,
                        requestBody |-> requestBody, headers |-> headers]
       IN  /\ pending' = Append(pending, closure)
           /\ Recorded("handleSendRequest", closure)
    /\ UNCHANGED << environments, apiKeys, webhooks, logs, selectedEnvironmentId,
                    nextId, method, path, selectedAPIKeyId, requestBody, headers,
                    steps >>
    /\ UNCHANGED generator

\* APIRequestTester.handleSendRequest up to its await: the Send button is
\* enabled, the display is cleared, and the call keeps the method, path, key
\* id and key collection of the render it was made in.
HandleSendRequest ==
    /\ Mounted(environments, selectedEnvironmentId)
    /\ ~isLoading
    /\ isLoading' = TRUE
    /\ statusCode' = NULL
    /\ responseTime' = NULL
    /\ error' = ""
    /\ LET closure == [method |-> method, path |-> path,
                        selectedAPIKeyId |-> selectedAPIKeyId, apiKeys |-> apiKeys,
                        requestBody |-> requestBody, headers |-> headers]
       IN  /\ pending' = << closure >>
           /\ Recorded("handleSendRequest", closure)
    /\ UNCHANGED << environments, apiKeys, webhooks, logs, selectedEnvironmentId,
                    nextId, method, path, selectedAPIKeyId, requestBody, headers,
                    steps >>
    /\ UNCHANGED generator

\* Mutant of ResolveRequest: the loading flag is reset on success only.
ResolveRequestNoFinally(delay) ==
    /\ pending # << >>
    /\ LET closure == pending[1]
           result == simulate(closure.method, closure.path,
                              closure.selectedAPIKeyId, closure.apiKeys)
       IN  /\ statusCode' = result.statusCode
           /\ error' = result.error
           /\ isLoading' = (result.error # "")
           /\ Recorded("resolveRequest", closure)
    /\ responseTime' = delay
    /\ pending' = << >>
    /\ UNCHANGED << environments, apiKeys, webhooks, logs, selectedEnvironmentId,
                    nextId, method, path, selectedAPIKeyId, requestBody, headers,
                    steps >>
    /\ UNCHANGED generator

\* Mutant of ResolveRequest: the request is classified against the keys of
\* the store as they are when the delay is over.
ResolveRequestCurrentKeys(delay) ==
    /\ pending # << >>
    /\ LET closure == pending[1]
           result == simulate(closure.method, closure.path,
                              closure.selectedAPIKeyId, apiKeys)
       IN  /\ statusCode' = result.statusCode
           /\ error' = result.error
           /\ Recorded("resolveRequest", closure)
    /\ responseTime' = delay
    /\ isLoading' = FALSE
    /\ pending' = << >>
    /\ UNCHANGED << environments, apiKeys, webhooks, logs, selectedEnvironmentId,
                    nextId, method, path, selectedAPIKeyId, requestBody, headers,
                    steps >>
    /\ UNCHANGED generator

\* Mutant of ResolveRequest: the request stamps lastUsed on the key it sent.
ResolveRequestStampingKey(delay) ==
    /\ pending # << >>
    /\ LET closure == pending[1]
           result == simulate(closure.method, closure.path,
                              closure.selectedAPIKeyId, closure.apiKeys)
       IN  /\ statusCode' = result.statusCode
           /\ error' = result.error
           /\ apiKeys' = [i \in DOMAIN apiKeys |->
                            IF apiKeys[i].id = closure.selectedAPIKeyId
                            THEN [apiKeys[i] EXCEPT !.lastUsed = "Now"]
                            ELSE apiKeys[i]]
           /\ Recorded("resolveRequest", closure)
    /\ responseTime' = delay
    /\ isLoading' = FALSE
    /\ pending' = << >>
    /\ UNCHANGED << environments, webhooks, logs, selectedEnvironmentId,
                    nextId, method, path, selectedAPIKeyId, requestBody, headers,
                    steps >>
    /\ UNCHANGED generator

\* handleSendRequest after its await: the delay timer has fired, the request
\* is classified and the finally block records the time and ends the loading.
ResolveRequest(delay) ==
    /\ pending # << >>
    /\ LET closure == pending[1]
           result == respond(closure, delay)
       IN  /\ statusCode' = result.statusCode
           /\ error' = result.error
           /\ Recorded("resolveRequest", closure)
    /\ responseTime' = delay
    /\ isLoading' = FALSE
    /\ pending' = << >>
    /\ UNCHANGED << environments, apiKeys, webhooks, logs, selectedEnvironmentId,
                    nextId, method, path, selectedAPIKeyId, requestBody, headers,
                    steps >>
    /\ UNCHANGED generator

\* The request body field, shown for POST, PUT and PATCH: setRequestBody.
SetRequestBody(text) ==
    /\ Mounted(environments, selectedEnvironmentId)
    /\ method \in {"POST", "PUT", "PATCH"}
    /\ text # requestBody
    /\ requestBody' = text
    /\ Recorded("setRequestBody", text)
    /\ UNCHANGED << environments, apiKeys, webhooks, logs, selectedEnvironmentId,
                    nextId, method, path, selectedAPIKeyId, headers, isLoading,
                    statusCode, responseTime, error, pending, steps >>
    /\ UNCHANGED generator

\* The headers field: setHeaders.
SetHeaders(text) ==
    /\ Mounted(environments, selectedEnvironmentId)
    /\ text # headers
    /\ headers' = text
    /\ Recorded("setHeaders", text)
    /\ UNCHANGED << environments, apiKeys, webhooks, logs, selectedEnvironmentId,
                    nextId, method, path, selectedAPIKeyId, requestBody, isLoading,
                    statusCode, responseTime, error, pending, steps >>
    /\ UNCHANGED generator

\* ------------------------------------------------- AI generator handlers

\* SandboxHeader's button: setDataGenOpen(true); the modal mounts.
OpenDataGen ==
    /\ ~Mounted(environments, selectedEnvironmentId)
    /\ ~isDataGenOpen
    /\ isDataGenOpen' = TRUE
    /\ GeneratorInitial
    /\ Recorded("setDataGenOpen", TRUE)
    /\ UNCHANGED << environments, apiKeys, webhooks, logs, selectedEnvironmentId,
                    nextId, steps >>
    /\ UNCHANGED tester

\* The modal's onClose: setDataGenOpen(false); the modal unmounts and a call
\* in flight has nothing left to set.
CloseDataGen ==
    /\ isDataGenOpen
    /\ isDataGenOpen' = FALSE
    /\ GeneratorInitial
    /\ Recorded("setDataGenOpen", FALSE)
    /\ UNCHANGED << environments, apiKeys, webhooks, logs, selectedEnvironmentId,
                    nextId, steps >>
    /\ UNCHANGED tester

\* The prompt textarea's onChange.
SetPrompt(p) ==
    /\ isDataGenOpen
    /\ prompt' = p
    /\ Recorded("setPrompt", p)
    /\ UNCHANGED << isDataGenOpen, generatedData, generatorIsLoading,
                    generatorError, generatorPending >>
    /\ UNCHANGED << environments, apiKeys, webhooks, logs, selectedEnvironmentId,
                    nextId, steps >>
    /\ UNCHANGED tester

\* AIDataGeneratorModal.handleGenerate up to its await; the button is
\* disabled while loading and for an empty prompt.
HandleGenerate ==
    /\ isDataGenOpen
    /\ ~generatorIsLoading
    /\ prompt # ""
    /\ generatorIsLoading' = TRUE
    /\ generatedData' = ""
    /\ generatorError' = ""
    /\ generatorPending' = << prompt >>
    /\ Recorded("handleGenerate", prompt)
    /\ UNCHANGED << isDataGenOpen, prompt >>
    /\ UNCHANGED << environments, apiKeys, webhooks, logs, selectedEnvironmentId,
                    nextId, steps >>
    /\ UNCHANGED tester

\* handleGenerate after its await: the call has ended with response r; the
\* try block sets the data, the catch block the error, finally ends loading.
ResolveGenerate(r) ==
    /\ generatorPending # << >>
    /\ IF parsed(r)
       THEN /\ generatedData' = "json"
            /\ generatorError' = ""
       ELSE /\ generatedData' = ""
            /\ generatorError' = ErrorMessage
    /\ generatorIsLoading' = FALSE
    /\ generatorPending' = << >>
    /\ Recorded("resolveGenerate", r)
    /\ UNCHANGED << isDataGenOpen, prompt >>
    /\ UNCHANGED << environments, apiKeys, webhooks, logs, selectedEnvironmentId,
                    nextId, steps >>
    /\ UNCHANGED tester

\* ------------------------------------------------------------ store spec

\* The permission check boxes of APIKeyForm as the store specification ticks
\* them: none, or admin alone.
FormPermissionSets == { {}, {"admin"} }

\* An id that names no environment, for calls through the context.
NoSuchEnvironment == MaxUUID + 1

NextStore ==
    \/ \E id \in Ids(environments) : HandleSelectEnvironment(id)
    \/ HandleBackToEnvironments
    \/ \E name \in Names : EnvironmentFormCreate(name)
    \/ \E i \in DOMAIN environments, name \in Names : EnvironmentFormEdit(i, name)
    \/ HandleUpdateStatus
    \/ HandleDelete
    \/ \E id \in Ids(environments) \cup {NoSuchEnvironment} : DeleteEnvironment(id)
    \/ \E status \in KeyStatuses, permissions \in FormPermissionSets :
          HandleCreateKey(status, permissions)
    \/ HandleGenerateNewKey
    \/ \E i \in DOMAIN apiKeys, status \in KeyStatuses, permissions \in FormPermissionSets :
          HandleUpdateKey(i, status, permissions)
    \/ \E i \in DOMAIN apiKeys : HandleRevokeKey(i)
    \/ \E i \in DOMAIN apiKeys : DeleteApiKey(i)
    \/ \E status \in HookStatuses : HandleSaveWebhookNew(status)
    \/ \E i \in DOMAIN webhooks, status \in HookStatuses : HandleSaveWebhookEdit(i, status)
    \/ \E i \in DOMAIN webhooks : DeleteWebhook(i)
    \/ \E envId \in Ids(environments) : RefreshLogs(envId, MaxBatch)
    \/ \E envId \in Ids(environments), t \in TimeStamps : AddLog(envId, t)

Spec == Init /\ [][NextStore]_vars

\* -------------------------------------------------------- simulator spec

\* The environment the simulator specification has open.
OpenEnvironment == MOCK_ENVIRONMENTS[1].id

\* The key collections the API Keys tab of the open environment leads to from
\* the mock keys: each key of the open environment deleted, or given any
\* status and any permission set in APIKeyForm; the other keys as generated.
EditedKeys(mock) ==
    LET own == { j \in DOMAIN mock : mock[j].environmentId = OpenEnvironment }
    IN  { LET edited == [j \in DOMAIN mock |->
                            IF j \in own
                            THEN [mock[j] EXCEPT !.status = st[j], !.permissions = pm[j]]
                            ELSE mock[j]]
          IN  Filter(edited, LAMBDA key : key.id \notin deleted)
          : st \in [own -> KeyStatuses], pm \in [own -> SUBSET Permissions],
            deleted \in SUBSET { mock[j].id : j \in own } }

\* The states the simulator specification runs from: the open environment's
\* detail view with the tester idle, after any editing of its keys and any
\* choice of method, path and key.  The selected key id is one the effect
\* leaves alone: empty when no key is available, otherwise the id of a key
\* the selector offered, which may since have been edited or deleted.
InitSim ==
    /\ environments = MOCK_ENVIRONMENTS
    /\ \E mock \in MOCK_API_KEYS(FirstUUID, {"Active"}, {{"read:data", "write:data"}}) :
          /\ apiKeys \in EditedKeys(mock)
          /\ webhooks \in MOCK_WEBHOOKS(FirstUUID + Len(mock), {"Active"})
          /\ logs \in InitialLogs(MOCK_ENVIRONMENTS,
                                  FirstUUID + Len(mock) + Len(webhooks), {1}, {1})
          /\ nextId = FirstUUID + Len(mock) + Len(webhooks) + Len(logs)
          /\ selectedAPIKeyId \in
                { id \in {NULL} \cup { mock[j].id : j \in DOMAIN mock } :
                    /\ id # NULL =>
                         \E j \in DOMAIN mock :
                            mock[j].id = id /\ mock[j].environmentId = OpenEnvironment
                    /\ effectKeyId(id, availableKeys(apiKeys, OpenEnvironment)) = id }
    /\ selectedEnvironmentId = OpenEnvironment
    /\ method \in Methods
    /\ path \in Paths
    /\ requestBody = DefaultBody
    /\ headers = DefaultHeaders
    /\ isLoading = FALSE
    /\ statusCode = NULL
    /\ responseTime = NULL
    /\ error = ""
    /\ pending = << >>
    /\ GeneratorClosed
    /\ call = [op |-> "start", arg |-> NULL, pre |-> Snapshot]
    /\ steps = 0

NextSim ==
    \/ HandleSendRequest
    \/ \E delay \in Delays : ResolveRequest(delay)

SpecSim == InitSim /\ [][NextSim]_vars

\* The simulator specification with the delay timer firing: a request that
\* is waiting is resolved sooner or later.
\* It runs from the states of InitSim whose keys carry permission sets the
\* mock generator draws.
InitSimFair ==
    /\ InitSim
    /\ \A key \in Range(apiKeys) : key.permissions \in MockPermissionSets

SpecSimFair ==
    InitSimFair /\ [][NextSim]_vars
                /\ WF_vars(\E delay \in Delays : ResolveRequest(delay))

\* The request tester with its text fields: the body and headers texts are
\* edited between and during requests.  It runs from the states of InitSimFair
\* whose keys carry one of two permission sets.
TextPermissionSets == { {"read:data"}, {"admin"} }

InitText ==
    /\ InitSimFair
    /\ \A key \in Range(apiKeys) :
          key.environmentId = OpenEnvironment => key.permissions \in TextPermissionSets

NextText ==
    \/ \E text \in RequestBodies : SetRequestBody(text)
    \/ \E text \in HeaderTexts : SetHeaders(text)
    \/ HandleSendRequest
    \/ \E delay \in Delays : ResolveRequest(delay)

SpecText == InitText /\ [][NextText]_vars

\* ------------------------------------------------- updateEnvironment spec

\* The payloads updateEnvironment is called with: a record for each stored
\* environment and for an id that names none.
EnvironmentPayloads ==
    [id : Ids(environments) \cup {NoSuchEnvironment}, name : Names,
     status : {"Active", "Archived"}, apiKeyCount : {0}, webhookCount : {0}]

\* SandboxProvider.updateEnvironment called through the context.
UpdateEnvironment(env) ==
    /\ environments' = replacedById(environments, env)
    /\ Called("updateEnvironment", env)
    /\ UNCHANGED << apiKeys, webhooks, logs, selectedEnvironmentId, nextId >>
    /\ TesterFollows
    /\ UNCHANGED generator

NextUpdate == \E env \in EnvironmentPayloads : UpdateEnvironment(env)

SpecUpdate == Init /\ [][NextUpdate]_vars

\* The detail view with the API Keys tab and the request tester side by side:
\* keys of the open environment are revoked, edited and deleted while a
\* request waits on its delay.  It runs from the open environment with the
\* mock keys as generated and any method, path and selected key.
InitPending ==
    /\ InitSim
    /\ apiKeys \in MOCK_API_KEYS(FirstUUID, {"Active"}, {{"read:data", "write:data"}})

NextPending ==
    \/ HandleSendRequest
    \/ \E delay \in Delays : ResolveRequest(delay)
    \/ \E i \in DOMAIN apiKeys : steps < MaxKeyEdits /\ HandleRevokeKey(i)
    \/ \E i \in DOMAIN apiKeys, status \in KeyStatuses, permissions \in FormPermissionSets :
          steps < MaxKeyEdits /\ HandleUpdateKey(i, status, permissions)
    \/ \E i \in DOMAIN apiKeys : steps < MaxKeyEdits /\ DeleteApiKey(i)

SpecPending == InitPending /\ [][NextPending]_vars

\* The log operations of the store alone.
NextLogs ==
    \/ \E envId \in Ids(environments) : RefreshLogs(envId, MaxBatch)
    \/ \E envId \in Ids(environments), t \in TimeStamps : AddLog(envId, t)

SpecLogs == Init /\ [][NextLogs]_vars

\* The handlers that move the selected-environment pointer or change the
\* environments: select, back, create, edit and delete.
NextPointer ==
    \/ \E id \in Ids(environments) : HandleSelectEnvironment(id)
    \/ HandleBackToEnvironments
    \/ \E name \in Names : EnvironmentFormCreate(name)
    \/ \E i \in DOMAIN environments, name \in Names : EnvironmentFormEdit(i, name)
    \/ HandleDelete
    \/ \E id \in Ids(environments) \cup {NoSuchEnvironment} : DeleteEnvironment(id)

SpecPointer == Init /\ [][NextPointer]_vars

\* The three update functions called through the context, with a record
\* whose id is stored or is not.
NoSuchId == MaxUUID + 2

KeyPayloads ==
    { [key EXCEPT !.status = status] : key \in Range(apiKeys), status \in KeyStatuses }
       \cup { [id |-> NoSuchId, environmentId |-> OpenEnvironment, status |-> "Active",
               permissions |-> {"admin"}, lastUsed |-> "Never"] }

WebhookPayloads ==
    { [webhook EXCEPT !.status = status] :
        webhook \in Range(webhooks), status \in HookStatuses }
       \cup { [id |-> NoSuchId, environmentId |-> OpenEnvironment, status |-> "Active"] }

\* SandboxProvider.updateApiKey called through the context.
UpdateApiKey(key) ==
    /\ apiKeys' = replacedById(apiKeys, key)
    /\ Called("updateApiKey", key)
    /\ UNCHANGED << environments, webhooks, logs, selectedEnvironmentId, nextId >>
    /\ TesterFollows
    /\ UNCHANGED generator

\* SandboxProvider.updateWebhook called through the context.
UpdateWebhook(webhook) ==
    /\ webhooks' = replacedById(webhooks, webhook)
    /\ Called("updateWebhook", webhook)
    /\ UNCHANGED << environments, apiKeys, logs, selectedEnvironmentId, nextId >>
    /\ TesterFollows
    /\ UNCHANGED generator

NextReplace ==
    \/ \E env \in EnvironmentPayloads : UpdateEnvironment(env)
    \/ \E key \in KeyPayloads : UpdateApiKey(key)
    \/ \E webhook \in WebhookPayloads : UpdateWebhook(webhook)

SpecReplace == Init /\ [][NextReplace]_vars

\* ------------------------------------------------ environment status spec

\* The statuses the rows of MOCK_ENVIRONMENTS have.
MockEnvStatuses == {"Active", "Stopped", "Provisioning"}

\* Start-up with the mock environments in any of the statuses the mock rows
\* have; keys, webhooks and logs as in Init, with one timestamp.
InitStatus ==
    /\ \E st \in [DOMAIN MOCK_ENVIRONMENTS -> MockEnvStatuses] :
          environments = [i \in DOMAIN MOCK_ENVIRONMENTS |->
                             [MOCK_ENVIRONMENTS[i] EXCEPT !.status = st[i]]]
    /\ apiKeys \in MOCK_API_KEYS(FirstUUID, {"Active"}, {{"read:data", "write:data"}})
    /\ webhooks \in MOCK_WEBHOOKS(FirstUUID + Len(apiKeys), {"Active"})
    /\ logs \in InitialLogs(MOCK_ENVIRONMENTS,
                            FirstUUID + Len(apiKeys) + Len(webhooks), {1}, {1})
    /\ selectedEnvironmentId = NULL
    /\ nextId = FirstUUID + Len(apiKeys) + Len(webhooks) + Len(logs)
    /\ method = "GET"
    /\ path = "/users/{id}"
    /\ selectedAPIKeyId = NULL
    /\ requestBody = DefaultBody
    /\ headers = DefaultHeaders
    /\ isLoading = FALSE
    /\ statusCode = NULL
    /\ responseTime = NULL
    /\ error = ""
    /\ pending = << >>
    /\ GeneratorClosed
    /\ call = [op |-> "start", arg |-> NULL, pre |-> Snapshot]
    /\ steps = 0

\* The user actions on environments.
NextStatus ==
    \/ \E id \in Ids(environments) : HandleSelectEnvironment(id)
    \/ HandleBackToEnvironments
    \/ \E name \in Names : EnvironmentFormCreate(name)
    \/ \E i \in DOMAIN environments, name \in Names : EnvironmentFormEdit(i, name)
    \/ \E name \in Names : EnvironmentSettingsSubmit(name)
    \/ HandleUpdateStatus
    \/ HandleDelete

SpecStatus == InitStatus /\ [][NextStatus]_vars

\* ------------------------------------------------------ AI generator spec

NextGenerator ==
    \/ OpenDataGen
    \/ CloseDataGen
    \/ \E p \in Prompts : SetPrompt(p)
    \/ HandleGenerate
    \/ \E r \in Responses : ResolveGenerate(r)

SpecGenerator == Init /\ [][NextGenerator]_vars

\* ============================================================== claims

\* The elements of s passing Keep, in the order they have in s.
Kept(s, Keep(_)) ==
    LET idx == { i \in DOMAIN s : Keep(s[i]) }
    IN  [n \in 1..Cardinality(idx) |->
            s[CHOOSE i \in idx : Cardinality({ j \in idx : j <= i }) = n]]

Count(s, Test(_)) == Cardinality({ i \in DOMAIN s : Test(s[i]) })

\* The last operation was deleteEnvironment(id), called by the detail view's
\* delete handler or through the context.
Deleted(id) == call.op \in {"deleteEnvironment", "handleDelete"} /\ call.arg = id

\* C1: deleting an environment E of the store removes E, the API keys and
\* webhooks whose environmentId is E.id and the log entries whose
\* environmentId is E.id, and nothing else: the environments, keys, webhooks
\* and log entries left are exactly the others, unchanged and in the order
\* they had.
C1_DeleteCascades ==
    \A id \in Ids(call.pre.environments) :
        Deleted(id) =>
            /\ environments = Kept(call.pre.environments, LAMBDA e : e.id # id)
            /\ apiKeys = Kept(call.pre.apiKeys, LAMBDA k : k.environmentId # id)
            /\ webhooks = Kept(call.pre.webhooks, LAMBDA w : w.environmentId # id)
            /\ logs = Kept(call.pre.logs, LAMBDA l : l.environmentId # id)

\* An environment that owned keys, webhooks and log entries was deleted while
\* another environment with keys and log entries stayed.
C1_Witness ==
    \E id \in Ids(call.pre.environments) :
        /\ Deleted(id)
        /\ Count(call.pre.apiKeys, LAMBDA k : k.environmentId = id) >= 2
        /\ Count(call.pre.webhooks, LAMBDA w : w.environmentId = id) >= 1
        /\ Count(call.pre.logs, LAMBDA l : l.environmentId = id) >= 1
        /\ Len(environments) >= 1 /\ Len(apiKeys) >= 1 /\ Len(logs) >= 1
        /\ Len(apiKeys) < Len(call.pre.apiKeys)
        /\ Len(webhooks) < Len(call.pre.webhooks)
        /\ Len(logs) < Len(call.pre.logs)

\* C2: after deleteEnvironment(id) the selected-environment pointer is null
\* if it was id before the call and is what it was otherwise.
C2_PointerAfterDelete ==
    call.op \in {"deleteEnvironment", "handleDelete"} =>
        IF call.pre.selectedEnvironmentId = call.arg
        THEN selectedEnvironmentId = NULL
        ELSE selectedEnvironmentId = call.pre.selectedEnvironmentId

\* The open environment was deleted through the context and the pointer
\* cleared.
C2_Witness ==
    /\ call.op = "deleteEnvironment"
    /\ call.pre.selectedEnvironmentId # NULL
    /\ call.pre.selectedEnvironmentId = call.arg
    /\ call.arg \notin Ids(environments)
    /\ selectedEnvironmentId = NULL

\* Another environment than the open one was deleted and the pointer kept.
C2_WitnessKept ==
    /\ call.op = "deleteEnvironment"
    /\ call.pre.selectedEnvironmentId # NULL
    /\ call.arg \in Ids(call.pre.environments)
    /\ call.pre.selectedEnvironmentId # call.arg
    /\ selectedEnvironmentId = call.pre.selectedEnvironmentId

\* C10: after refreshLogs(envId) no log entry of envId is one the store held
\* before the call, and the entries of the other environments are those held
\* before, in the same order.
C10_RefreshReplaces ==
    call.op = "refreshLogs" =>
        /\ \A i \in DOMAIN logs :
              logs[i].environmentId = call.arg =>
                  /\ logs[i].id \notin Ids(call.pre.logs)
                  /\ logs[i] \notin Range(call.pre.logs)
        /\ Kept(logs, LAMBDA l : l.environmentId # call.arg)
             = Kept(call.pre.logs, LAMBDA l : l.environmentId # call.arg)

\* An environment with stored entries was refreshed while another
\* environment held two entries.
C10_Witness ==
    /\ call.op = "refreshLogs"
    /\ Count(call.pre.logs, LAMBDA l : l.environmentId = call.arg) >= 1
    /\ Count(call.pre.logs, LAMBDA l : l.environmentId # call.arg) >= 2
    /\ Count(logs, LAMBDA l : l.environmentId = call.arg) >= 2
    /\ Count(logs, LAMBDA l : l.environmentId # call.arg) >= 2

\* The last operation was a simulated request running to its end; `request`
\* is what its closure held.
Resolved == call.op = "resolveRequest"
request == call.arg

\* The request's path and method are those of a catalog entry whose
\* isAuthenticated flag is auth.
MatchesEndpoint(auth) ==
    \E i \in DOMAIN MOCK_API_ENDPOINTS :
        /\ MOCK_API_ENDPOINTS[i].path = request.path
        /\ MOCK_API_ENDPOINTS[i].method = request.method
        /\ MOCK_API_ENDPOINTS[i].isAuthenticated = auth

\* The keys of the collection that carry the selected key id.
SentKeys == { k \in Range(request.apiKeys) : k.id = request.selectedAPIKeyId }

\* The success status of each method, as the specification lists them.
ExpectedSuccess(m) ==
    CASE m = "GET" -> 200
      [] m = "POST" -> 201
      [] m = "DELETE" -> 204
      [] m \in {"PUT", "PATCH"} -> 200

\* C3: a request to an authenticated endpoint with matching method and an
\* Active key holding `admin` is never answered 403 and is answered with the
\* success status of its method, whatever else the key holds.
C3_AdminBypasses ==
    (Resolved /\ MatchesEndpoint(TRUE)
       /\ \E k \in SentKeys : k.status = "Active" /\ "admin" \in k.permissions)
    => (statusCode # 403 /\ statusCode = ExpectedSuccess(request.method))

\* C4: a request to an authenticated endpoint with matching method and an
\* Active key is answered 403 when the key lacks the permission of the method:
\* neither write:data nor admin for POST, PUT, DELETE and PATCH, neither
\* read:data nor admin for GET.
C4_ForbiddenWithoutPermission ==
    \A k \in (IF Resolved THEN SentKeys ELSE {}) :
        (/\ MatchesEndpoint(TRUE)
         /\ k.status = "Active"
         /\ "admin" \notin k.permissions
         /\ \/ /\ request.method \in {"POST", "PUT", "DELETE", "PATCH"}
               /\ "write:data" \notin k.permissions
            \/ /\ request.method = "GET"
               /\ "read:data" \notin k.permissions)
        => statusCode = 403

\* GET /users/{id} was sent with an Active key holding only write:data and
\* answered 403.
C4_Witness ==
    /\ Resolved
    /\ request.method = "GET" /\ request.path = "/users/{id}"
    /\ \E k \in SentKeys : k.status = "Active" /\ k.permissions = {"write:data"}
    /\ statusCode = 403

\* C5: a request to an authenticated endpoint with matching method is
\* answered 401 when no key is selected, when the selected id is not in the
\* key collection, and when the key is not Active, whatever it holds.
C5_Unauthorized ==
    (Resolved /\ MatchesEndpoint(TRUE)
       /\ \/ request.selectedAPIKeyId = NULL
          \/ SentKeys = {}
          \/ \E k \in SentKeys : k.status # "Active")
    => statusCode = 401

\* POST /orders was sent with a Revoked key holding admin and answered 401.
C5_Witness ==
    /\ Resolved
    /\ request.method = "POST" /\ request.path = "/orders"
    /\ \E k \in SentKeys : k.status = "Revoked" /\ "admin" \in k.permissions
    /\ statusCode = 401

\* C6: a request whose path is in no catalog entry is answered 404, for every
\* method and every key.
C6_UnknownPath ==
    (Resolved /\ \A i \in DOMAIN MOCK_API_ENDPOINTS :
                    MOCK_API_ENDPOINTS[i].path # request.path)
    => statusCode = 404

\* A DELETE of an unknown path was sent with an Active admin key and
\* answered 404.
C6_Witness ==
    /\ Resolved
    /\ request.path = UnknownPath /\ request.method = "DELETE"
    /\ \E k \in SentKeys : k.status = "Active" /\ "admin" \in k.permissions
    /\ statusCode = 404

\* C7: a request whose path is in the catalog and whose method is not the
\* entry's method is answered 405 for every key: the method is checked before
\* the key.
C7_MethodNotAllowed ==
    (Resolved
       /\ \E i \in DOMAIN MOCK_API_ENDPOINTS :
              MOCK_API_ENDPOINTS[i].path = request.path
       /\ \A j \in DOMAIN MOCK_API_ENDPOINTS :
              MOCK_API_ENDPOINTS[j].path = request.path
                  => MOCK_API_ENDPOINTS[j].method # request.method)
    => statusCode = 405

\* GET on the authenticated POST path /orders was sent without a key and
\* answered 405.
C7_Witness ==
    /\ Resolved
    /\ request.path = "/orders" /\ request.method = "GET"
    /\ request.selectedAPIKeyId = NULL
    /\ statusCode = 405

\* C8: a request that matches a catalog entry by path and method and is not
\* turned away by the key checks (401, 403) is answered 200 for GET, 201 for
\* POST, 204 for DELETE and 200 for PUT and PATCH.
C8_SuccessStatus ==
    (Resolved /\ (MatchesEndpoint(TRUE) \/ MatchesEndpoint(FALSE))
       /\ statusCode \notin {401, 403})
    => statusCode = ExpectedSuccess(request.method)

\* DELETE /products/{id} was sent with an Active key holding write:data and
\* answered 204.
C8_Witness ==
    /\ Resolved
    /\ request.method = "DELETE" /\ request.path = "/products/{id}"
    /\ \E k \in SentKeys : k.status = "Active" /\ k.permissions = {"write:data"}
    /\ statusCode = 204

\* C9: a request that matches a catalog entry which asks for no
\* authentication is answered 200, whatever key is selected.
C9_OpenEndpoint ==
    (Resolved /\ MatchesEndpoint(FALSE)) => statusCode = 200

\* GET /products was sent with a Revoked key selected and answered 200.
C9_Witness ==
    /\ Resolved
    /\ request.method = "GET" /\ request.path = "/products"
    /\ \E k \in SentKeys : k.status = "Revoked"
    /\ statusCode = 200

\* C11: a key whose status is Revoked is never made Active again by a user
\* operation (revoke, save of the key form, updateApiKey): a key that was
\* Revoked before the last operation and is still in the store is not Active.
C11_NoUnrevoke ==
    \A i \in DOMAIN call.pre.apiKeys : \A j \in DOMAIN apiKeys :
        (call.pre.apiKeys[i].status = "Revoked"
           /\ apiKeys[j].id = call.pre.apiKeys[i].id)
        => apiKeys[j].status # "Active"

\* C12: for every environment the log entries of that environment, read in
\* store order, have non-increasing timestamps (newest first).
C12_LogsNewestFirst ==
    \A i \in DOMAIN logs : \A j \in DOMAIN logs :
        (i < j /\ logs[i].environmentId = logs[j].environmentId)
        => logs[i].timestamp >= logs[j].timestamp

\* C13: every API key, webhook and log entry in the store names an
\* environment that is in the store.
C13_ReferentialIntegrity ==
    /\ \A i \in DOMAIN apiKeys : apiKeys[i].environmentId \in Ids(environments)
    /\ \A i \in DOMAIN webhooks : webhooks[i].environmentId \in Ids(environments)
    /\ \A i \in DOMAIN logs : logs[i].environmentId \in Ids(environments)

\* An environment that owned a key created in the console, a webhook and a
\* log entry was deleted, and keys and log entries of other environments
\* remain.
C13_Witness ==
    /\ call.op \in {"deleteEnvironment", "handleDelete"}
    /\ call.arg \in Ids(call.pre.environments)
    /\ \E i \in DOMAIN call.pre.apiKeys :
          /\ call.pre.apiKeys[i].environmentId = call.arg
          /\ call.pre.apiKeys[i].id >= nextId - 1
    /\ \E i \in DOMAIN call.pre.webhooks : call.pre.webhooks[i].environmentId = call.arg
    /\ \E i \in DOMAIN call.pre.logs : call.pre.logs[i].environmentId = call.arg
    /\ apiKeys # << >> /\ logs # << >>

C15_RequestLeavesStore ==
    call.op \in {"handleSendRequest", "resolveRequest"} => Snapshot = call.pre

\* POST /orders was answered 201 for an Active key that is in the store with
\* the lastUsed it had when the request was sent.
C15_Witness ==
    /\ Resolved
    /\ request.method = "POST" /\ request.path = "/orders"
    /\ statusCode = 201
    /\ \E k \in SentKeys : k.status = "Active" /\ k \in Range(apiKeys)

\* C16: updateEnvironment called again with the payload it was just called
\* with leaves the store as the first call left it, also when the payload's
\* id matches no environment.
C16_UpdateIdempotent ==
    call.op = "updateEnvironment" =>
        /\ replacedById(environments, call.arg) = environments
        /\ (call.arg \in Range(call.pre.environments) => Snapshot = call.pre)

\* updateEnvironment was called a second time with a payload that had
\* replaced a different record the first time.
C16_Witness ==
    /\ call.op = "updateEnvironment"
    /\ call.arg \in Range(call.pre.environments)
    /\ call.arg \notin Range(MOCK_ENVIRONMENTS)
    /\ Snapshot = call.pre

\* updateEnvironment was called with a payload whose id matches no
\* environment.
C16_WitnessMissing ==
    /\ call.op = "updateEnvironment"
    /\ call.arg.id \notin Ids(call.pre.environments)
    /\ Snapshot = call.pre

\* C17: after addApiKey(k) the keys filtered by k's environment hold k exactly
\* once, every field as passed in, and hold every key they held before.
C17_AddKeyRoundTrip ==
    call.op = "addApiKey" =>
        LET k == call.arg
            before == Filter(call.pre.apiKeys,
                             LAMBDA key : key.environmentId = k.environmentId)
            after == Filter(apiKeys, LAMBDA key : key.environmentId = k.environmentId)
        IN  /\ Cardinality({ i \in DOMAIN after : after[i] = k }) = 1
            /\ Cardinality({ i \in DOMAIN after : after[i].id = k.id }) = 1
            /\ \A i \in DOMAIN before : \E j \in DOMAIN after : after[j] = before[i]

\* The key form created a Revoked key with the admin permission in an
\* environment that already had keys.
C17_Witness ==
    /\ call.op = "addApiKey"
    /\ call.arg.status = "Revoked" /\ call.arg.permissions = {"admin"}
    /\ \E i \in DOMAIN call.pre.apiKeys :
          call.pre.apiKeys[i].environmentId = call.arg.environmentId
    /\ \E i \in DOMAIN apiKeys : apiKeys[i] = call.arg

\* C18: deleteEnvironment with an id that matches no environment leaves
\* environments, API keys, webhooks, logs and the selected-environment pointer
\* as they were.
C18_DeleteMissingIsNoOp ==
    (call.op = "deleteEnvironment" /\ call.arg \notin Ids(call.pre.environments))
    => Snapshot = call.pre

\* deleteEnvironment was called with an unknown id while an environment was
\* open and the store held keys, webhooks and logs.
C18_Witness ==
    /\ call.op = "deleteEnvironment"
    /\ call.arg \notin Ids(call.pre.environments)
    /\ call.pre.selectedEnvironmentId # NULL
    /\ selectedEnvironmentId = call.pre.selectedEnvironmentId
    /\ apiKeys # << >> /\ webhooks # << >> /\ logs # << >>

\* C19: a user action changes the status of a stored environment only from
\* Active to Stopped or from Stopped to Active (so Provisioning and Archived
\* stay until the environment is deleted), and a save of the environment form
\* or of the settings tab leaves the status as it was.
C19_StatusTransitions ==
    \A i \in DOMAIN call.pre.environments : \A j \in DOMAIN environments :
        LET old == call.pre.environments[i]
            new == environments[j]
        IN  old.id = new.id =>
              /\ old.status # new.status =>
                    \/ old.status = "Active" /\ new.status = "Stopped"
                    \/ old.status = "Stopped" /\ new.status = "Active"
              /\ old.name # new.name => old.status = new.status

\* The settings of an open Provisioning environment were saved with a changed
\* payload, and the environment is still Provisioning.
C19_Witness ==
    /\ call.op = "updateEnvironment"
    /\ selectedEnvironmentId = call.arg.id
    /\ call.arg.status = "Provisioning"
    /\ \E i \in DOMAIN call.pre.environments :
          /\ call.pre.environments[i].id = call.arg.id
          /\ call.pre.environments[i].name # call.arg.name
    /\ call.arg \in Range(environments)

\* An open Active environment was stopped.
C19_WitnessStopped ==
    /\ call.op = "updateEnvironment"
    /\ call.arg.status = "Stopped"
    /\ \E i \in DOMAIN call.pre.environments :
          /\ call.pre.environments[i].id = call.arg.id
          /\ call.pre.environments[i].status = "Active"
    /\ call.arg \in Range(environments)

\* C20: when the completion call fails, by rejecting or by returning no text
\* or text from which no JSON value is parsed, the generator ends with an
\* error message, no generated data and loading false, and environments, API
\* keys, webhooks, logs and the selected pointer are as they were.
C20_GeneratorFailureCaught ==
    (/\ call.op = "resolveGenerate"
     /\ \/ call.arg.outcome \in {"rejected", "noText"}
        \/ call.arg.body \in {"brokenInProse", "prose"})
    => /\ generatorError # ""
       /\ generatedData = ""
       /\ ~generatorIsLoading
       /\ generatorPending = << >>
       /\ Snapshot = call.pre

\* The call returned fenced text with braces around something that is no
\* JSON value, and the modal shows the error and no data.
C20_Witness ==
    /\ call.op = "resolveGenerate"
    /\ call.arg.outcome = "text" /\ call.arg.fenced
    /\ call.arg.body = "brokenInProse"
    /\ isDataGenOpen
    /\ generatorError = ErrorMessage /\ generatedData = ""
    /\ apiKeys # << >> /\ logs # << >>

\* The call was rejected.
C20_WitnessRejected ==
    /\ call.op = "resolveGenerate"
    /\ call.arg.outcome = "rejected"
    /\ generatorError = ErrorMessage /\ ~generatorIsLoading

\* C21: every environment's apiKeyCount is the number of stored API keys with
\* its id as environmentId, and its webhookCount the number of such webhooks.
C21_CountsMatch ==
    \A e \in DOMAIN environments :
        /\ environments[e].apiKeyCount =
              Cardinality({ i \in DOMAIN apiKeys :
                              apiKeys[i].environmentId = environments[e].id })
        /\ environments[e].webhookCount =
              Cardinality({ i \in DOMAIN webhooks :
                              webhooks[i].environmentId = environments[e].id })

\* The status codes handleSendRequest can set.
StatusCodes == {200, 201, 204, 401, 403, 404, 405, 500}

\* A step changes a status code shown only by clearing it for the next send,
\* and a request in flight only by answering it.
AnsweredOnce ==
    /\ (statusCode # NULL /\ statusCode' # statusCode)
          => (statusCode' = NULL /\ isLoading')
    /\ (pending # << >> /\ pending' # pending)
          => (pending' = << >> /\ statusCode' \in StatusCodes)

\* C22: every request that is started is resolved, given that the delay
\* timer fires, with one status code of the eight, the loading flag false and
\* a response time recorded; the answer is set once: a status code shown is
\* replaced only by the clearing of the next send, and nothing is left in
\* flight after the answer.
C22_RequestResolves ==
    /\ isLoading ~> (/\ ~isLoading
                     /\ statusCode \in StatusCodes
                     /\ responseTime \in Delays
                     /\ pending = << >>)
    /\ [][AnsweredOnce]_vars

\* A request was sent, answered 401 after the longest delay, and nothing is
\* in flight.
C22_Witness ==
    /\ Resolved
    /\ ~isLoading /\ pending = << >>
    /\ statusCode = 401 /\ responseTime = 1500


\* The closures that agree with the request sent on method, path, selected key
\* id and key collection, with every body and headers text.
Agreeing ==
    { [request EXCEPT !.requestBody = body, !.headers = text] :
        body \in RequestBodies, text \in HeaderTexts }

\* C23: the status code of a simulated request is a function of the method,
\* the path, the selected key id and the key collection only.  The status a
\* resolved request shows is the status of every request that agrees with it
\* on these four, whatever its body text, its headers text and its delay; the
\* handler reads nothing else of the store.
C23_StatusDeterministic ==
    Resolved =>
        \A other \in Agreeing : \A delay \in Delays :
            respond(other, delay).statusCode = statusCode

\* A request sent with a body and headers that are no JSON, answered after the
\* longest delay with a success status.
C23_Witness ==
    /\ Resolved
    /\ request.requestBody = "{name"
    /\ request.headers = "Content-Type"
    /\ responseTime = 1500
    /\ statusCode = 201


\* The collection an update function works on, before and after the call.
UpdatedBefore ==
    CASE call.op = "updateEnvironment" -> call.pre.environments
      [] call.op = "updateApiKey" -> call.pre.apiKeys
      [] call.op = "updateWebhook" -> call.pre.webhooks

UpdatedAfter ==
    CASE call.op = "updateEnvironment" -> environments
      [] call.op = "updateApiKey" -> apiKeys
      [] call.op = "updateWebhook" -> webhooks

\* C24: updateApiKey(k) puts k at the position of the stored key whose id is
\* k.id and leaves every other key as it was; when no stored key has that id
\* the keys are unchanged and k is not inserted; the other collections and
\* the pointer are untouched.  The same for updateWebhook and updateEnvironment.
C24_ReplaceById ==
    call.op \in {"updateEnvironment", "updateApiKey", "updateWebhook"} =>
        /\ Len(UpdatedAfter) = Len(UpdatedBefore)
        /\ \A i \in DOMAIN UpdatedBefore :
              UpdatedAfter[i] = IF UpdatedBefore[i].id = call.arg.id
                                THEN call.arg ELSE UpdatedBefore[i]
        /\ call.arg.id \notin Ids(UpdatedBefore) =>
              /\ UpdatedAfter = UpdatedBefore
              /\ call.arg \notin Range(UpdatedAfter)
        /\ call.op # "updateEnvironment" => environments = call.pre.environments
        /\ call.op # "updateApiKey" => apiKeys = call.pre.apiKeys
        /\ call.op # "updateWebhook" => webhooks = call.pre.webhooks
        /\ logs = call.pre.logs
        /\ selectedEnvironmentId = call.pre.selectedEnvironmentId

\* updateApiKey replaced the second of three keys by a record that differs
\* from it.
C24_Witness ==
    /\ call.op = "updateApiKey"
    /\ Len(apiKeys) = 3
    /\ call.pre.apiKeys[2].id = call.arg.id
    /\ call.pre.apiKeys[2] # call.arg
    /\ apiKeys[2] = call.arg

\* updateWebhook was called with a record whose id is not stored.
C24_WitnessMissing ==
    /\ call.op = "updateWebhook"
    /\ call.arg.id \notin Ids(call.pre.webhooks)
    /\ webhooks = call.pre.webhooks


\* C25: addLog(entry) puts entry at the head of the logs and leaves every entry
\* stored before present, in the same order, behind it: the logs grow by
\* exactly one; environments, keys, webhooks and the pointer are untouched.
C25_AddLogPrepends ==
    call.op = "addLog" =>
        /\ Len(logs) = Len(call.pre.logs) + 1
        /\ logs[1] = call.arg
        /\ \A i \in DOMAIN call.pre.logs : logs[i + 1] = call.pre.logs[i]
        /\ environments = call.pre.environments
        /\ apiKeys = call.pre.apiKeys
        /\ webhooks = call.pre.webhooks
        /\ selectedEnvironmentId = call.pre.selectedEnvironmentId

\* addLog was called on logs that held entries of two environments.
C25_Witness ==
    /\ call.op = "addLog"
    /\ Len(call.pre.logs) >= 2
    /\ call.pre.logs[1].environmentId # call.pre.logs[2].environmentId
    /\ logs[1] = call.arg
    /\ logs[2] = call.pre.logs[1]


\* C26: a pending request is decided from the key collection as it was when
\* the request was sent: revoking, editing or deleting keys while the request
\* waits on its delay does not change the status code it resolves to.
C26_OutcomeFromSentKeys ==
    Resolved =>
        statusCode = simulate(request.method, request.path,
                              request.selectedAPIKeyId, request.apiKeys).statusCode

\* A request sent with an Active key resolved to success after the key was
\* revoked while the request was waiting; sent now it would be refused.
C26_Witness ==
    /\ Resolved
    /\ statusCode \in {200, 201, 204}
    /\ \E k \in SentKeys :
          /\ k.status = "Active"
          /\ \E now \in Range(apiKeys) : now.id = k.id /\ now.status = "Revoked"
    /\ simulate(request.method, request.path,
                request.selectedAPIKeyId, apiKeys).statusCode = 401

\* The same with the key deleted while the request was waiting.
C26_WitnessDeleted ==
    /\ Resolved
    /\ statusCode \in {200, 201, 204}
    /\ request.selectedAPIKeyId # NULL
    /\ request.selectedAPIKeyId \notin Ids(apiKeys)
    /\ simulate(request.method, request.path,
                request.selectedAPIKeyId, apiKeys).statusCode = 401


\* C27: in every state of the request tester the selected API key id is
\* empty, or the id of a key that is Active and belongs to the selected
\* environment.
C27_SelectedKeyActive ==
    \/ selectedAPIKeyId = NULL
    \/ \E key \in Range(apiKeys) :
          /\ key.id = selectedAPIKeyId
          /\ key.status = "Active"
          /\ key.environmentId = selectedEnvironmentId


\* A request is started only while none is waiting and the flag is false.
SentWhileIdle ==
    (pending' # pending /\ pending' # << >>) => (~isLoading /\ pending = << >>)

\* C28: at most one simulated request is pending at any time.  The loading
\* flag is true exactly while a request waits on its delay; a request is
\* started only while the flag is false; and the flag is false again once the
\* request is answered, on every outcome branch.
C28_OnePending ==
    /\ [](/\ Len(pending) <= 1
          /\ isLoading <=> (pending # << >>)
          /\ call.op = "handleSendRequest" => (isLoading /\ statusCode = NULL)
          /\ Resolved => (~isLoading /\ statusCode \in StatusCodes))
    /\ [][SentWhileIdle]_vars

\* A request was answered 403 and the flag is false again.
C28_Witness ==
    /\ Resolved
    /\ statusCode = 403
    /\ ~isLoading
    /\ pending = << >>

\* A request is waiting and the flag is true.
C28_WitnessPending ==
    /\ call.op = "handleSendRequest"
    /\ isLoading
    /\ Len(pending) = 1


\* C29: in every state the selected-environment pointer is null or the id of
\* an environment in the store, under any interleaving of select, back,
\* create, edit and delete.
C29_PointerValid ==
    selectedEnvironmentId = NULL \/ selectedEnvironmentId \in Ids(environments)

\* An environment created in this run is open after a mock environment was
\* deleted.
C29_Witness ==
    /\ selectedEnvironmentId # NULL
    /\ selectedEnvironmentId \in Ids(environments)
    /\ selectedEnvironmentId \notin Ids(MOCK_ENVIRONMENTS)
    /\ Len(environments) <= Len(MOCK_ENVIRONMENTS)

\* The open environment was deleted from its detail view and the pointer is
\* null.
C29_WitnessDeleted ==
    /\ call.op = "handleDelete"
    /\ call.arg \in Ids(call.pre.environments)
    /\ call.arg \notin Ids(environments)
    /\ selectedEnvironmentId = NULL


\* C30: the catalog declares only GET, POST and DELETE endpoints, so every
\* request with method PUT or PATCH is answered 404 or 405, for every path and
\* every key; the success branch for PUT and PATCH is never reached.
C30_NoUpdateOutcome ==
    /\ \A i \in DOMAIN MOCK_API_ENDPOINTS :
          MOCK_API_ENDPOINTS[i].method \in {"GET", "POST", "DELETE"}
    /\ (Resolved /\ request.method \in {"PUT", "PATCH"})
          => (/\ statusCode \in {404, 405}
              /\ statusCode = IF request.path \in CatalogPaths THEN 405 ELSE 404
              /\ error # "")

\* PUT on the POST path /users was sent with an Active admin key and
\* answered 405.
C30_Witness ==
    /\ Resolved
    /\ request.method = "PUT" /\ request.path = "/users"
    /\ \E k \in SentKeys : k.status = "Active" /\ k.permissions = {"admin"}
    /\ statusCode = 405

\* PATCH on a path outside the catalog was answered 404.
C30_WitnessUnknown ==
    /\ Resolved
    /\ request.method = "PATCH" /\ request.path = UnknownPath
    /\ statusCode = 404

====
